---- MODULE Spec2Model ----
(***************************************************************************)
(* FlowScope eBPF programs:                                                *)
(*   src/src/ebpf/flow_tracker.c    track_egress, track_ingress,           *)
(*                                  flush_flows, flow_map, events          *)
(*   src/src/ebpf/egress_monitor.c  monitor_egress, is_private_ip,         *)
(*                                  is_internal_ip, egress_bytes,          *)
(*                                  egress_events, cluster_cidrs           *)
(*                                                                         *)
(* Representation.  A __u32 is a tuple of four bytes, most significant     *)
(* byte of the register value first (TLC's integers stop at 2^31-1).  A    *)
(* field of a packet is the tuple of its bytes in wire order; Load32 and   *)
(* Load16 are the CPU's load of such a field, which depends on the byte    *)
(* order of the BPF target (target_be).  The __u64 counters are naturals;  *)
(* the bounded runs stay far below 2^64.                                   *)
(***************************************************************************)
EXTENDS Naturals, Sequences, FiniteSets, TLC

VARIABLES
    target_be,       \* TRUE: bpfeb target, FALSE: bpfel target
    clock,           \* bpf_ktime_get_ns()
    flow_map,        \* flow_tracker.c flow_map: flow_key -> element
    flow_elems,      \* the preallocated elements of flow_map: element -> flow_metrics
    events,          \* flow_tracker.c events ring buffer: sequence of records
    cluster_cidrs,   \* egress_monitor.c cluster_cidrs: index -> cidr_range
    cidr_count,      \* egress_monitor.c cidr_count[0]
    egress_bytes,    \* egress_monitor.c egress_bytes: dst_ip -> element
    egress_elems,    \* the preallocated elements of egress_bytes: element -> __u64
    egress_events,   \* egress_monitor.c egress_events ring buffer
    cpu,             \* per core: the program it runs, its position and its locals
    walker,          \* the bpf_iter walk that drives flush_flows
    consumed,        \* per ring buffer and producer: the events dequeued so far
    hist,            \* history: what the hooks have processed, per key
    cls              \* the classifier's last input and answer

vars == <<target_be, clock, flow_map, flow_elems, events, cluster_cidrs,
          cidr_count, egress_bytes, egress_elems, egress_events, cpu, walker,
          consumed, hist, cls>>

----------------------------------------------------------------------------
(* Program constants *)

MAX_CIDR_ENTRIES == 256
UnrollLimit == 16
ETH_P_IP == 2048
IPPROTO_TCP == 6
IPPROTO_UDP == 17
IPPROTO_ICMP == 1
EthHdrLen == 14
IpHdrLen == 20
TcpHdrLen == 20
UdpHdrLen == 8
TC_ACT_OK == 0
CgroupAllow == 1

NULL == "NULL"

----------------------------------------------------------------------------
(* Bytes and words *)

RECURSIVE And8(_, _, _)
And8(a, b, n) ==
    IF n = 0 \/ a = 0 \/ b = 0 THEN 0
    ELSE IF n = 8 /\ b = 255 THEN a
    ELSE ((a % 2) * (b % 2)) + 2 * And8(a \div 2, b \div 2, n - 1)

\* x & y on __u32
And32(x, y) == [i \in 1..4 |-> And8(x[i], y[i], 8)]

Swap32(x) == <<x[4], x[3], x[2], x[1]>>

Swap16(p) == (p % 256) * 256 + (p \div 256)

\* the CPU's load of a 4-byte field whose bytes on the wire are w
Load32(w, be) == IF be THEN w ELSE Swap32(w)

\* the CPU's load of a 2-byte field whose bytes on the wire are w
Load16(w, be) == IF be THEN w[1] * 256 + w[2] ELSE w[2] * 256 + w[1]

bpf_ntohl(x, be) == IF be THEN x ELSE Swap32(x)

bpf_ntohs(p, be) == IF be THEN p ELSE Swap16(p)

bpf_htons(p, be) == IF be THEN p ELSE Swap16(p)

Zero32 == <<0, 0, 0, 0>>

----------------------------------------------------------------------------
(* Packets.  An skb is what the hooks read of it: the captured length
   (data_end - data), the header fields in wire order, and skb->len. *)

Skb(caplen, h_proto, ihl, protocol, saddr, daddr, source, dest, len) ==
    [caplen |-> caplen, h_proto |-> h_proto, ihl |-> ihl, protocol |-> protocol,
     saddr |-> saddr, daddr |-> daddr, source |-> source, dest |-> dest,
     len |-> len]

\* wire bytes of a 16-bit value
Wire16(p) == <<p \div 256, p % 256>>

\* flow_tracker.c:94-111 (and 165-178): Ethernet and IP headers present,
\* IPv4, TCP or UDP
FtParseL3(skb, be) ==
    /\ ~(EthHdrLen > skb.caplen)
    /\ bpf_ntohs(Load16(skb.h_proto, be), be) = ETH_P_IP
    /\ ~(EthHdrLen + IpHdrLen > skb.caplen)
    /\ skb.protocol \in {IPPROTO_TCP, IPPROTO_UDP}

\* egress_monitor.c:122-137
EmParseL3(skb, be) ==
    /\ ~(EthHdrLen > skb.caplen)
    /\ Load16(skb.h_proto, be) = bpf_htons(ETH_P_IP, be)
    /\ ~(EthHdrLen + IpHdrLen > skb.caplen)
    /\ skb.protocol \in {IPPROTO_TCP, IPPROTO_UDP}

\* the test as it would be without the two comparisons with data_end
ParseL4_Any(skb) == skb.protocol = IPPROTO_TCP \/ skb.protocol # IPPROTO_TCP

\* the TCP or UDP header lies within the captured data
ParseL4(skb) ==
    LET l4 == EthHdrLen + skb.ihl * 4
    IN  IF skb.protocol = IPPROTO_TCP
        THEN ~(l4 + TcpHdrLen > skb.caplen)
        ELSE ~(l4 + UdpHdrLen > skb.caplen)

src_port(skb, be) == bpf_ntohs(Load16(skb.source, be), be)

dst_port(skb, be) == bpf_ntohs(Load16(skb.dest, be), be)

create_flow_key(src_ip, dst_ip, sport, dport, protocol) ==
    [src_ip |-> src_ip, dst_ip |-> dst_ip, src_port |-> sport,
     dst_port |-> dport, protocol |-> protocol, pad |-> <<0, 0, 0>>]

\* the key track_egress builds (flow_tracker.c:131)
EgressKey(skb, be) ==
    create_flow_key(Load32(skb.saddr, be), Load32(skb.daddr, be),
                    src_port(skb, be), dst_port(skb, be), skb.protocol)

\* the key as track_ingress would build it if it kept the packet's order
IngressKey_NoSwap(skb, be) ==
    create_flow_key(Load32(skb.saddr, be), Load32(skb.daddr, be),
                    src_port(skb, be), dst_port(skb, be), skb.protocol)

\* the key track_ingress builds (flow_tracker.c:198)
IngressKey(skb, be) ==
    create_flow_key(Load32(skb.daddr, be), Load32(skb.saddr, be),
                    dst_port(skb, be), src_port(skb, be), skb.protocol)

----------------------------------------------------------------------------
(* The classifier *)

CidrRange(network, mask) == [network |-> network, mask |-> mask]

\* BPF_MAP_TYPE_ARRAY lookup: every index below max_entries has a value,
\* the lookup of any other index returns NULL
CidrFound(cidrs, idx) == idx < MAX_CIDR_ENTRIES

\* the array is zero-filled; cidrs holds the entries userspace has written
CidrLookup(cidrs, idx) ==
    IF idx \in DOMAIN cidrs THEN cidrs[idx]
    ELSE CidrRange(<<0, 0, 0, 0>>, <<0, 0, 0, 0>>)

CidrMatch(ip, cidr) == And32(ip, cidr.mask) = And32(cidr.network, cidr.mask)

RECURSIVE CidrLoop(_, _, _, _)
CidrLoop(ip, num_cidrs, cidrs, i) ==
    IF ~(i < UnrollLimit) THEN 0
    ELSE IF i >= num_cidrs THEN 0
    ELSE IF ~CidrFound(cidrs, i) THEN CidrLoop(ip, num_cidrs, cidrs, i + 1)
    ELSE IF CidrMatch(ip, CidrLookup(cidrs, i)) THEN 1
    ELSE CidrLoop(ip, num_cidrs, cidrs, i + 1)

\* the function as it would be if the loop ran up to the clamped count
is_internal_ip_WholeTable(ip, count, cidrs) ==
    LET num_cidrs == IF count > MAX_CIDR_ENTRIES THEN MAX_CIDR_ENTRIES ELSE count
    IN  IF \E i \in 0..(num_cidrs - 1) :
               CidrFound(cidrs, i) /\ CidrMatch(ip, CidrLookup(cidrs, i))
        THEN 1 ELSE 0

is_internal_ip(ip, count, cidrs) ==
    LET num_cidrs == IF count > MAX_CIDR_ENTRIES THEN MAX_CIDR_ENTRIES ELSE count
    IN  CidrLoop(ip, num_cidrs, cidrs, 0)

\* the ranges as they would be tested on the address as loaded, without
\* bpf_ntohl
is_private_ip_NoSwap(ip, be) ==
    IF And32(ip, <<255, 0, 0, 0>>) = <<10, 0, 0, 0>> THEN 1
    ELSE IF And32(ip, <<255, 240, 0, 0>>) = <<172, 16, 0, 0>> THEN 1
    ELSE IF And32(ip, <<255, 255, 0, 0>>) = <<192, 168, 0, 0>> THEN 1
    ELSE IF And32(ip, <<255, 0, 0, 0>>) = <<127, 0, 0, 0>> THEN 1
    ELSE 0

is_private_ip(ip, be) ==
    LET ip_host == bpf_ntohl(ip, be)
    IN  IF And32(ip_host, <<255, 0, 0, 0>>) = <<10, 0, 0, 0>> THEN 1
        ELSE IF And32(ip_host, <<255, 240, 0, 0>>) = <<172, 16, 0, 0>> THEN 1
        ELSE IF And32(ip_host, <<255, 255, 0, 0>>) = <<192, 168, 0, 0>> THEN 1
        ELSE IF And32(ip_host, <<255, 0, 0, 0>>) = <<127, 0, 0, 0>> THEN 1
        ELSE 0

\* egress_monitor.c:140: the destination is private or cluster internal
DestInternal(daddr, be, count, cidrs) ==
    is_private_ip(daddr, be) # 0 \/ is_internal_ip(daddr, count, cidrs) # 0

----------------------------------------------------------------------------
(* Bounds of the model *)

NumCores == 2          \* cores that run the hooks
MaxPackets == 3        \* packets the hooks accept and flush walks, in one run
MaxClock == 2          \* largest value of the clock
FlowMapEntries == 2    \* max_entries of flow_map, scaled down from 65536
EgressMapEntries == 1  \* max_entries of egress_bytes, scaled down from 32768
EventsRingSize == 128  \* max_entries of events, scaled down from 256 * 1024
EgressRingSize == 128  \* max_entries of egress_events, scaled down from 512 * 1024

Cores == 1..NumCores

----------------------------------------------------------------------------
(* BPF_MAP_TYPE_HASH, preallocated.  The map owns max_entries elements
   plus one spare per core; a lookup returns a pointer to the element of
   the key, an update of a present key puts the value in another element
   and releases the old one at once, so a pointer a core still holds may
   name a released element or one that serves another key by now. *)

FlowElemIds == 1..(FlowMapEntries + NumCores)

EgressElemIds == 1..(EgressMapEntries + NumCores)

Elem(key, val) == [key |-> key, val |-> val]

\* the null pointer; the elements are numbered from 1
NullPtr == 0

MapLookup(map, key) == IF key \in DOMAIN map THEN map[key] ELSE NullPtr

\* an element is released when no key of the map has it
Released(map, e) == \A k \in DOMAIN map : map[k] # e

FreeElems(map, elems) == {e \in DOMAIN elems : Released(map, e)}

\* the elements an update may take: any released one.  Elements differ
\* only in who still points at them, so of the released elements nobody
\* points at, the lowest stands for all.
AllocChoices(map, elems, held) ==
    LET free == FreeElems(map, elems)
        fresh == free \ held
    IN  (free \cap held) \cup
        {e \in fresh : \A x \in fresh : e <= x}

MapFull(map, max_entries) == Cardinality(DOMAIN map) >= max_entries

\* the answer as it would be if a full map always found room
MapCanUpdate_Always(map, key, max_entries) ==
    key \in DOMAIN map \/ max_entries >= 0

\* can bpf_map_update_elem(map, key, value, BPF_ANY) store the value?
MapCanUpdate(map, key, max_entries) ==
    key \in DOMAIN map \/ ~MapFull(map, max_entries)

\* the map as it would be if an update evicted the other keys
MapUpdateMap_Evict(map, key, e) == (key :> e)

\* the map after bpf_map_update_elem(map, key, value, BPF_ANY) took element e
MapUpdateMap(map, key, e) ==
    [k \in DOMAIN map \cup {key} |-> IF k = key THEN e ELSE map[k]]

\* the elements after that update; what a released element holds is not
\* kept, as nothing reads it before the next update overwrites it
MapUpdateElems(map, elems, key, val, e, blank) ==
    [x \in DOMAIN elems |->
        IF x = e THEN Elem(key, val)
        ELSE IF key \in DOMAIN map /\ x = map[key] THEN blank
        ELSE elems[x]]

\* the addition as it would be if it stored delta over the field
ElemAdd_Overwrite(map, elems, ptr, field, delta) ==
    IF Released(map, ptr) THEN elems
    ELSE [elems EXCEPT ![ptr].val[field] = delta]

\* __sync_fetch_and_add(&ptr->field, delta): lost when the element has
\* been released, applied to whatever key the element serves otherwise
ElemAdd(map, elems, ptr, field, delta) ==
    IF Released(map, ptr) THEN elems
    ELSE [elems EXCEPT ![ptr].val[field] = @ + delta]

\* ptr->field = v
ElemSet(map, elems, ptr, field, v) ==
    IF Released(map, ptr) THEN elems
    ELSE [elems EXCEPT ![ptr].val[field] = v]

\* __sync_fetch_and_add(ptr, delta) on a __u64 value
ValueAdd(map, elems, ptr, delta) ==
    IF Released(map, ptr) THEN elems
    ELSE [elems EXCEPT ![ptr].val = @ + delta]

----------------------------------------------------------------------------
(* BPF_MAP_TYPE_RINGBUF.  A ring is the sequence of its records between
   the consumer position and the producer position, oldest first.  A
   record is busy from bpf_ringbuf_reserve to bpf_ringbuf_submit. *)

BPF_RINGBUF_HDR_SZ == 8
FlowEventSize == 96
EgressEventSize == 40

RoundUp8(n) == ((n + 7) \div 8) * 8

RecordLen(size) == RoundUp8(size + BPF_RINGBUF_HDR_SZ)

RECURSIVE RingUsed(_)
RingUsed(ring) ==
    IF ring = <<>> THEN 0 ELSE Head(ring).len + RingUsed(Tail(ring))

\* the test as it would be if a reservation never failed
RingHasRoom_Always(ring, size, capacity) == RecordLen(size) > 0

\* bpf_ringbuf_reserve finds room: the producer position stays less than
\* the ring's size ahead of the consumer position
RingHasRoom(ring, size, capacity) ==
    /\ ~(RecordLen(size) > capacity)
    /\ ~(RingUsed(ring) + RecordLen(size) > capacity - 1)

\* a reservation as it would be if the new record went in front of the
\* older ones
RingReserve_Prepend(ring, size, prod) ==
    <<[len |-> RecordLen(size), busy |-> TRUE, prod |-> prod,
       stamp |-> 0, data |-> <<>>]>> \o ring

\* the ring after a successful bpf_ringbuf_reserve by producer prod
RingReserve(ring, size, prod) ==
    Append(ring, [len |-> RecordLen(size), busy |-> TRUE, prod |-> prod,
                  stamp |-> 0, data |-> <<>>])

\* the position of the record producer prod has reserved and not submitted
ReservedAt(ring, prod) ==
    CHOOSE i \in 1..Len(ring) : ring[i].busy /\ ring[i].prod = prod

\* the ring after bpf_ringbuf_submit of prod's record, filled with data
RingSubmit(ring, prod, data, stamp) ==
    [ring EXCEPT ![ReservedAt(ring, prod)] =
        [@ EXCEPT !.busy = FALSE, !.data = <<data>>, !.stamp = stamp]]

\* the consumer can take the oldest record once it is submitted
RingCanConsume(ring) == ring # <<>> /\ ~Head(ring).busy

RingConsumed(ring) == Head(ring)

RingAfterConsume(ring) == Tail(ring)

----------------------------------------------------------------------------
(* The packets and tasks of the runs *)

HostA == <<10, 0, 0, 5>>
PeerExt == <<93, 184, 216, 34>>
PeerInt == <<10, 1, 1, 1>>

Whole(proto, saddr, daddr, sport, dport, len) ==
    Skb(64, Wire16(ETH_P_IP), 5, proto, saddr, daddr, Wire16(sport),
        Wire16(dport), len)

PeerDns == <<8, 8, 8, 8>>

\* outbound packets of three connections
OutPkts ==
    {Whole(IPPROTO_TCP, HostA, PeerExt, 40000, 443, 100),
     Whole(IPPROTO_TCP, HostA, PeerExt, 40000, 443, 60),
     Whole(IPPROTO_UDP, HostA, PeerInt, 40000, 53, 100),
     Whole(IPPROTO_UDP, HostA, PeerDns, 40001, 53, 70)}

PeerCdn == <<1, 1, 1, 1>>

\* what monitor_egress sees leave the host: one packet of each connection
\* and one to a second destination outside every private and configured range
MonPkts ==
    {p \in OutPkts : p.len # 60}
        \cup {Whole(IPPROTO_UDP, HostA, PeerCdn, 40002, 53, 70)}

\* inbound packets of the first two of them
InPkts ==
    {Whole(IPPROTO_TCP, PeerExt, HostA, 443, 40000, 1500),
     Whole(IPPROTO_UDP, PeerInt, HostA, 53, 40000, 60)}

\* packets the hooks do not track: truncated Ethernet header, not IPv4,
\* truncated IP header, neither TCP nor UDP, truncated TCP header,
\* truncated UDP header, TCP header pushed out by IP options
BadPkts ==
    {Skb(10, Wire16(ETH_P_IP), 5, IPPROTO_TCP, HostA, PeerExt,
         Wire16(40000), Wire16(443), 10),
     Skb(64, Wire16(34525), 5, IPPROTO_TCP, HostA, PeerExt,
         Wire16(40000), Wire16(443), 64),
     Skb(30, Wire16(ETH_P_IP), 5, IPPROTO_TCP, HostA, PeerExt,
         Wire16(40000), Wire16(443), 30),
     Skb(64, Wire16(ETH_P_IP), 5, IPPROTO_ICMP, HostA, PeerExt,
         Wire16(40000), Wire16(443), 64),
     Skb(50, Wire16(ETH_P_IP), 5, IPPROTO_TCP, HostA, PeerExt,
         Wire16(40000), Wire16(443), 50),
     Skb(40, Wire16(ETH_P_IP), 5, IPPROTO_UDP, HostA, PeerExt,
         Wire16(40000), Wire16(443), 40),
     Skb(56, Wire16(ETH_P_IP), 6, IPPROTO_TCP, HostA, PeerExt,
         Wire16(40000), Wire16(443), 56)}

\* a task: bpf_get_current_pid_tgid() as <<upper 32 bits, lower 32 bits>>,
\* bpf_get_current_uid_gid() likewise, and the task's comm
Tasks ==
    {[pid_tgid |-> <<1234, 1235>>, uid_gid |-> <<100, 1000>>, comm |-> "curl"],
     [pid_tgid |-> <<77, 77>>, uid_gid |-> <<0, 0>>, comm |-> "nginx"]}

\* x >> 32 and x & 0xFFFFFFFF on a __u64 given as its two halves
Shr32(x) == x[1]

Low32(x) == x[2]

----------------------------------------------------------------------------
(* Per-core state and history *)

IdleCpu(ret) ==
    [prog |-> NULL, pc |-> "idle", skb |-> NULL, key |-> NULL, ptr |-> NullPtr,
     now |-> 0, task |-> NULL, ret |-> ret]

Idle(c) == cpu[c].pc = "idle"

AllIdle == \A c \in Cores : Idle(c)

ZeroFlowHist ==
    [sent_bytes |-> 0, sent_pkts |-> 0, recv_bytes |-> 0, recv_pkts |-> 0,
     recv_miss |-> 0, first_sight |-> 0, dropped |-> 0]

ZeroDestHist ==
    [bytes |-> 0, pkts |-> 0, skipped |-> 0, first_sight |-> 0, dropped |-> 0]

HistFlow(k) == IF k \in DOMAIN hist.flows THEN hist.flows[k] ELSE ZeroFlowHist

HistDest(d) == IF d \in DOMAIN hist.dests THEN hist.dests[d] ELSE ZeroDestHist

WithFlow(h, k, r) == [h EXCEPT !.flows = (k :> r) @@ h.flows]

WithDest(h, d, r) == [h EXCEPT !.dests = (d :> r) @@ h.dests]

\* the packets the hooks have accepted and the walks started so far are fewer
\* than max
Budget(max) == hist.n < max

\* bpf_ktime_get_ns(): the clock is monotonic, and is seen only where it is
\* read; a read finds it where the last read left it or further on
ClockReads == {t \in {clock, clock + 1} : t <= MaxClock}

EgressSide ==
    <<cluster_cidrs, cidr_count, egress_bytes, egress_elems, egress_events>>

FlowSide == <<flow_map, flow_elems, events>>

\* what a core keeps of the hook that has returned: the hook and its verdict
Returned(prog, ret) == <<[prog |-> prog, val |-> ret]>>

\* hook prog returns ret on core c
ReturnFrom(c, prog, ret) == cpu' = [cpu EXCEPT ![c] = IdleCpu(Returned(prog, ret))]

Return(c, ret) == ReturnFrom(c, cpu[c].prog, ret)

Goto(c, pc) == cpu' = [cpu EXCEPT ![c].pc = pc]

----------------------------------------------------------------------------
(* flow_tracker.c: track_egress *)

\* a released element of flow_map
BlankFlowElem ==
    Elem(create_flow_key(Zero32, Zero32, 0, 0, 0),
         [bytes_sent |-> 0, bytes_received |-> 0, packets_sent |-> 0,
          packets_received |-> 0, start_time_ns |-> 0, last_seen_ns |-> 0,
          pid |-> 0, uid |-> 0, comm |-> ""])

\* the pointers into flow_map's elements that cores and the walk hold
HeldFlowPtrs ==
    {cpu[c].ptr : c \in {x \in Cores : cpu[x].prog \in {"track_egress", "track_ingress"}}}
        \cup {walker.elem}

NewMetrics(len, now, task) ==
    [bytes_sent |-> len, bytes_received |-> 0, packets_sent |-> 1,
     packets_received |-> 0, start_time_ns |-> now, last_seen_ns |-> now,
     pid |-> Shr32(task.pid_tgid), uid |-> Low32(task.uid_gid),
     comm |-> task.comm]

\* lines 90-131: parse the packet and build the key
TeEnter(c, skb, task) ==
    /\ Idle(c)
    /\ IF FtParseL3(skb, target_be) /\ ParseL4(skb)
       THEN LET key == EgressKey(skb, target_be)
                h == HistFlow(key)
            IN  /\ cpu' = [cpu EXCEPT ![c] =
                       [prog |-> "track_egress", pc |-> "lookup", skb |-> skb,
                        key |-> key, ptr |-> NullPtr, now |-> 0, task |-> task,
                        ret |-> <<>>]]
                /\ hist' = [WithFlow(hist, key,
                               [h EXCEPT !.sent_bytes = @ + skb.len,
                                         !.sent_pkts = @ + 1])
                            EXCEPT !.n = @ + 1]
       ELSE /\ ReturnFrom(c, "track_egress", CgroupAllow)
            /\ hist' = hist
    /\ UNCHANGED <<target_be, clock, FlowSide, EgressSide, walker, consumed, cls>>

\* line 134: bpf_map_lookup_elem(&flow_map, &key)
TeLookup(c) ==
    /\ cpu[c].prog = "track_egress" /\ cpu[c].pc = "lookup"
    /\ LET ptr == MapLookup(flow_map, cpu[c].key)
           h == HistFlow(cpu[c].key)
       IN  /\ cpu' = [cpu EXCEPT ![c].ptr = ptr, ![c].pc = "time"]
           /\ hist' = IF ptr = NullPtr
                      THEN WithFlow(hist, cpu[c].key,
                                    [h EXCEPT !.first_sight = @ + 1])
                      ELSE hist
    /\ UNCHANGED <<target_be, clock, FlowSide, EgressSide, walker, consumed, cls>>

\* line 135: now = bpf_ktime_get_ns(), then the test of line 137
TeTime(c) ==
    /\ cpu[c].prog = "track_egress" /\ cpu[c].pc = "time"
    /\ \E t \in ClockReads :
          /\ clock' = t
          /\ cpu' = [cpu EXCEPT ![c].now = t,
                                ![c].pc = IF cpu[c].ptr = NullPtr THEN "insert"
                                          ELSE "add_bytes"]
    /\ UNCHANGED <<target_be, FlowSide, EgressSide, walker, consumed, hist, cls>>

\* lines 139-148 as they would be if the failed update were answered with
\* the verdict 0
TeInsert_DropOnFull(c) ==
    /\ cpu[c].prog = "track_egress" /\ cpu[c].pc = "insert"
    /\ LET key == cpu[c].key
           val == NewMetrics(cpu[c].skb.len, cpu[c].now, cpu[c].task)
           h == HistFlow(key)
       IN  IF MapCanUpdate(flow_map, key, FlowMapEntries)
           THEN /\ \E e \in AllocChoices(flow_map, flow_elems, HeldFlowPtrs) :
                      /\ flow_map' = MapUpdateMap(flow_map, key, e)
                      /\ flow_elems' =
                             MapUpdateElems(flow_map, flow_elems, key, val, e,
                                            BlankFlowElem)
                /\ hist' = hist
                /\ Return(c, CgroupAllow)
           ELSE /\ UNCHANGED <<flow_map, flow_elems>>
                /\ hist' = WithFlow(hist, key, [h EXCEPT !.dropped = @ + 1])
                /\ Return(c, 0)
    /\ UNCHANGED <<target_be, clock, events, EgressSide, walker, consumed, cls>>

\* lines 139-148: new flow, bpf_map_update_elem(..., BPF_ANY); line 156
TeInsert(c) ==
    /\ cpu[c].prog = "track_egress" /\ cpu[c].pc = "insert"
    /\ LET key == cpu[c].key
           val == NewMetrics(cpu[c].skb.len, cpu[c].now, cpu[c].task)
           h == HistFlow(key)
       IN  IF MapCanUpdate(flow_map, key, FlowMapEntries)
           THEN /\ \E e \in AllocChoices(flow_map, flow_elems, HeldFlowPtrs) :
                      /\ flow_map' = MapUpdateMap(flow_map, key, e)
                      /\ flow_elems' =
                             MapUpdateElems(flow_map, flow_elems, key, val, e,
                                            BlankFlowElem)
                /\ hist' = hist
           ELSE /\ UNCHANGED <<flow_map, flow_elems>>
                /\ hist' = WithFlow(hist, key, [h EXCEPT !.dropped = @ + 1])
    /\ Return(c, CgroupAllow)
    /\ UNCHANGED <<target_be, clock, events, EgressSide, walker, consumed, cls>>

\* line 151: __sync_fetch_and_add(&metrics->bytes_sent, skb->len)
TeAddBytes(c) ==
    /\ cpu[c].prog = "track_egress" /\ cpu[c].pc = "add_bytes"
    /\ flow_elems' = ElemAdd(flow_map, flow_elems, cpu[c].ptr, "bytes_sent", cpu[c].skb.len)
    /\ Goto(c, "add_pkts")
    /\ UNCHANGED <<target_be, clock, flow_map, events, EgressSide, walker,
                   consumed, hist, cls>>

\* line 152: __sync_fetch_and_add(&metrics->packets_sent, 1)
TeAddPkts(c) ==
    /\ cpu[c].prog = "track_egress" /\ cpu[c].pc = "add_pkts"
    /\ flow_elems' = ElemAdd(flow_map, flow_elems, cpu[c].ptr, "packets_sent", 1)
    /\ Goto(c, "set_last")
    /\ UNCHANGED <<target_be, clock, flow_map, events, EgressSide, walker,
                   consumed, hist, cls>>

\* line 153 as it would be if the update also reset the start of the flow
TeSetLast_Restart(c) ==
    /\ cpu[c].prog = "track_egress" /\ cpu[c].pc = "set_last"
    /\ flow_elems' =
           ElemSet(flow_map,
                   ElemSet(flow_map, flow_elems, cpu[c].ptr, "last_seen_ns",
                           cpu[c].now),
                   cpu[c].ptr, "start_time_ns", cpu[c].now)
    /\ Return(c, CgroupAllow)
    /\ UNCHANGED <<target_be, clock, flow_map, events, EgressSide, walker,
                   consumed, hist, cls>>

\* line 153: metrics->last_seen_ns = now; line 156
TeSetLast(c) ==
    /\ cpu[c].prog = "track_egress" /\ cpu[c].pc = "set_last"
    /\ flow_elems' = ElemSet(flow_map, flow_elems, cpu[c].ptr, "last_seen_ns", cpu[c].now)
    /\ Return(c, CgroupAllow)
    /\ UNCHANGED <<target_be, clock, flow_map, events, EgressSide, walker,
                   consumed, hist, cls>>

----------------------------------------------------------------------------
(* flow_tracker.c: track_ingress *)

\* lines 161-198: parse the packet and build the reversed key
TiEnter(c, skb) ==
    /\ Idle(c)
    /\ IF FtParseL3(skb, target_be) /\ ParseL4(skb)
       THEN /\ cpu' = [cpu EXCEPT ![c] =
                [prog |-> "track_ingress", pc |-> "lookup", skb |-> skb,
                 key |-> IngressKey(skb, target_be), ptr |-> NullPtr, now |-> 0,
                 task |-> NULL, ret |-> <<>>]]
            /\ hist' = [hist EXCEPT !.n = @ + 1]
       ELSE ReturnFrom(c, "track_ingress", CgroupAllow) /\ hist' = hist
    /\ UNCHANGED <<target_be, clock, FlowSide, EgressSide, walker, consumed, cls>>

\* line 200: bpf_map_lookup_elem(&flow_map, &key)
TiLookup(c) ==
    /\ cpu[c].prog = "track_ingress" /\ cpu[c].pc = "lookup"
    /\ LET ptr == MapLookup(flow_map, cpu[c].key)
           h == HistFlow(cpu[c].key)
       IN  /\ cpu' = [cpu EXCEPT ![c].ptr = ptr, ![c].pc = "time"]
           /\ hist' = IF ptr # NullPtr
                      THEN WithFlow(hist, cpu[c].key,
                                    [h EXCEPT !.recv_bytes = @ + cpu[c].skb.len,
                                              !.recv_pkts = @ + 1])
                      ELSE WithFlow(hist, cpu[c].key,
                                    [h EXCEPT !.recv_miss = @ + 1])
    /\ UNCHANGED <<target_be, clock, FlowSide, EgressSide, walker, consumed, cls>>

\* line 201 and the test of line 203 as they would be if a missing entry were
\* created for the inbound packet
TiTime_Upsert(c) ==
    /\ cpu[c].prog = "track_ingress" /\ cpu[c].pc = "time"
    /\ \E t \in ClockReads :
          /\ clock' = t
          /\ IF cpu[c].ptr = NullPtr
             THEN /\ Return(c, CgroupAllow)
                  /\ IF MapCanUpdate(flow_map, cpu[c].key, FlowMapEntries)
                     THEN \E e \in AllocChoices(flow_map, flow_elems, HeldFlowPtrs) :
                            /\ flow_map' = MapUpdateMap(flow_map, cpu[c].key, e)
                            /\ flow_elems' =
                                   MapUpdateElems(flow_map, flow_elems, cpu[c].key,
                                       [BlankFlowElem.val EXCEPT
                                           !.bytes_received = cpu[c].skb.len,
                                           !.packets_received = 1],
                                       e, BlankFlowElem)
                     ELSE UNCHANGED <<flow_map, flow_elems>>
             ELSE /\ cpu' = [cpu EXCEPT ![c].now = t, ![c].pc = "add_bytes"]
                  /\ UNCHANGED <<flow_map, flow_elems>>
    /\ UNCHANGED <<target_be, events, EgressSide, walker, consumed, hist, cls>>

\* line 201: now = bpf_ktime_get_ns(), then the test of line 203
TiTime(c) ==
    /\ cpu[c].prog = "track_ingress" /\ cpu[c].pc = "time"
    /\ \E t \in ClockReads :
          /\ clock' = t
          /\ IF cpu[c].ptr = NullPtr
             THEN Return(c, CgroupAllow)
             ELSE cpu' = [cpu EXCEPT ![c].now = t, ![c].pc = "add_bytes"]
    /\ UNCHANGED <<target_be, FlowSide, EgressSide, walker, consumed, hist, cls>>

\* line 204: __sync_fetch_and_add(&metrics->bytes_received, skb->len)
TiAddBytes(c) ==
    /\ cpu[c].prog = "track_ingress" /\ cpu[c].pc = "add_bytes"
    /\ flow_elems' =
           ElemAdd(flow_map, flow_elems, cpu[c].ptr, "bytes_received", cpu[c].skb.len)
    /\ Goto(c, "add_pkts")
    /\ UNCHANGED <<target_be, clock, flow_map, events, EgressSide, walker,
                   consumed, hist, cls>>

\* line 205: __sync_fetch_and_add(&metrics->packets_received, 1)
TiAddPkts(c) ==
    /\ cpu[c].prog = "track_ingress" /\ cpu[c].pc = "add_pkts"
    /\ flow_elems' = ElemAdd(flow_map, flow_elems, cpu[c].ptr, "packets_received", 1)
    /\ Goto(c, "set_last")
    /\ UNCHANGED <<target_be, clock, flow_map, events, EgressSide, walker,
                   consumed, hist, cls>>

\* line 206: metrics->last_seen_ns = now; line 209
TiSetLast(c) ==
    /\ cpu[c].prog = "track_ingress" /\ cpu[c].pc = "set_last"
    /\ flow_elems' = ElemSet(flow_map, flow_elems, cpu[c].ptr, "last_seen_ns", cpu[c].now)
    /\ Return(c, CgroupAllow)
    /\ UNCHANGED <<target_be, clock, flow_map, events, EgressSide, walker,
                   consumed, hist, cls>>

----------------------------------------------------------------------------
(* flow_tracker.c: flush_flows, driven by the bpf_iter walk over flow_map.
   The walk passes the buckets one by one in an order the hash decides;
   a key inserted into a bucket already passed is not visited. *)

Walker == 0

Producers == 0..NumCores

FlowKeys == {EgressKey(p, target_be) : p \in OutPkts}

IdleWalker == [pc |-> "idle", passed |-> {}, elem |-> NullPtr]

\* memcpy of the element's key and metrics into the event (lines 227-230);
\* a released element holds whatever it held last
FlowEvent(map, elems, ptr) ==
    IF Released(map, ptr)
    THEN [stale |-> TRUE, key |-> BlankFlowElem.key, metrics |-> BlankFlowElem.val,
          event_type |-> 0, direction |-> 0]
    ELSE [stale |-> FALSE, key |-> elems[ptr].key, metrics |-> elems[ptr].val,
          event_type |-> 0, direction |-> 0]

\* userspace starts a walk (the periodic flush trigger)
WalkStart ==
    /\ walker.pc = "idle"
    /\ walker' = [pc |-> "next", passed |-> {}, elem |-> NullPtr]
    /\ hist' = [hist EXCEPT !.n = @ + 1]
    /\ UNCHANGED <<target_be, clock, FlowSide, EgressSide, cpu, consumed, cls>>

\* the visit of key k as it would be if a failed reservation ended the walk
FlReserve_StopOnFull(k) ==
    /\ walker.pc = "next" /\ k \in FlowKeys \ walker.passed
    /\ IF k \in DOMAIN flow_map
       THEN IF RingHasRoom(events, FlowEventSize, EventsRingSize)
            THEN /\ events' = RingReserve(events, FlowEventSize, Walker)
                 /\ walker' = [pc |-> "submit", passed |-> walker.passed \cup {k},
                               elem |-> flow_map[k]]
            ELSE /\ events' = events
                 /\ walker' = IdleWalker
       ELSE /\ events' = events
            /\ walker' = [walker EXCEPT !.passed = @ \cup {k}]
    /\ UNCHANGED <<target_be, clock, flow_map, flow_elems, EgressSide, cpu,
                   consumed, hist, cls>>

\* the walk reaches the bucket of key k; if the key is present flush_flows
\* runs on its element: lines 215-224, bpf_ringbuf_reserve
FlReserve(k) ==
    /\ walker.pc = "next" /\ k \in FlowKeys \ walker.passed
    /\ IF k \in DOMAIN flow_map /\ RingHasRoom(events, FlowEventSize, EventsRingSize)
       THEN /\ events' = RingReserve(events, FlowEventSize, Walker)
            /\ walker' = [pc |-> "submit", passed |-> walker.passed \cup {k},
                          elem |-> flow_map[k]]
       ELSE /\ events' = events
            /\ walker' = [walker EXCEPT !.passed = @ \cup {k}]
    /\ UNCHANGED <<target_be, clock, flow_map, flow_elems, EgressSide, cpu,
                   consumed, hist, cls>>

\* lines 227-234: fill the event, bpf_ringbuf_submit, return 0
FlSubmit ==
    /\ walker.pc = "submit"
    /\ events' = RingSubmit(events, Walker, FlowEvent(flow_map, flow_elems, walker.elem),
                            hist.nsub.events + 1)
    /\ hist' = [hist EXCEPT !.nsub.events = @ + 1]
    /\ walker' = [walker EXCEPT !.pc = "next", !.elem = NullPtr]
    /\ UNCHANGED <<target_be, clock, flow_map, flow_elems, EgressSide, cpu,
                   consumed, cls>>

\* all buckets passed: the closing call with no element (lines 218-219)
WalkEnd ==
    /\ walker.pc = "next" /\ walker.passed = FlowKeys
    /\ walker' = IdleWalker
    /\ UNCHANGED <<target_be, clock, FlowSide, EgressSide, cpu, consumed,
                   hist, cls>>

----------------------------------------------------------------------------
(* egress_monitor.c: monitor_egress *)

\* a released element of egress_bytes
BlankEgressElem == Elem(Zero32, 0)

\* the pointers into egress_bytes' elements that cores hold
HeldEgressPtrs ==
    {cpu[c].ptr : c \in {x \in Cores : cpu[x].prog = "monitor_egress"}}

\* the event of lines 174-181; pad and pad2 are left as the ring had them
EgressEvent(skb, be, now) ==
    [src_ip |-> Load32(skb.saddr, be), dst_ip |-> Load32(skb.daddr, be),
     src_port |-> src_port(skb, be), dst_port |-> dst_port(skb, be),
     protocol |-> skb.protocol, bytes |-> skb.len, timestamp_ns |-> now,
     pid |-> 0]

\* lines 118-137: parse the Ethernet and IP headers
MeEnter(c, skb) ==
    /\ Idle(c)
    /\ IF EmParseL3(skb, target_be)
       THEN /\ cpu' = [cpu EXCEPT ![c] =
                [prog |-> "monitor_egress", pc |-> "classify", skb |-> skb,
                 key |-> Load32(skb.daddr, target_be), ptr |-> NullPtr,
                 now |-> 0, task |-> NULL, ret |-> <<>>]]
            /\ hist' = [hist EXCEPT !.n = @ + 1]
       ELSE ReturnFrom(c, "monitor_egress", TC_ACT_OK) /\ hist' = hist
    /\ UNCHANGED <<target_be, clock, FlowSide, EgressSide, walker, consumed, cls>>

\* lines 140-158 as they would be without the return of line 141
MeClassify_NoGate(c) ==
    /\ cpu[c].prog = "monitor_egress" /\ cpu[c].pc = "classify"
    /\ LET d == cpu[c].key
           h == HistDest(d)
       IN  IF ~ParseL4(cpu[c].skb)
           THEN Return(c, TC_ACT_OK) /\ hist' = hist
           ELSE /\ Goto(c, "lookup")
                /\ hist' = WithDest(hist, d,
                               [h EXCEPT !.bytes = @ + cpu[c].skb.len,
                                         !.pkts = @ + 1])
    /\ UNCHANGED <<target_be, clock, FlowSide, EgressSide, walker, consumed, cls>>

\* lines 140-158: classify the destination, then parse the ports
MeClassify(c) ==
    /\ cpu[c].prog = "monitor_egress" /\ cpu[c].pc = "classify"
    /\ LET d == cpu[c].key
           h == HistDest(d)
       IN  IF DestInternal(d, target_be, cidr_count, cluster_cidrs)
           THEN /\ Return(c, TC_ACT_OK)
                /\ hist' = WithDest(hist, d, [h EXCEPT !.skipped = @ + 1])
           ELSE IF ~ParseL4(cpu[c].skb)
           THEN Return(c, TC_ACT_OK) /\ hist' = hist
           ELSE /\ Goto(c, "lookup")
                /\ hist' = WithDest(hist, d,
                               [h EXCEPT !.bytes = @ + cpu[c].skb.len,
                                         !.pkts = @ + 1])
    /\ UNCHANGED <<target_be, clock, FlowSide, EgressSide, walker, consumed, cls>>

\* lines 161-162: bpf_map_lookup_elem(&egress_bytes, &ip->daddr)
MeLookup(c) ==
    /\ cpu[c].prog = "monitor_egress" /\ cpu[c].pc = "lookup"
    /\ LET ptr == MapLookup(egress_bytes, cpu[c].key)
           h == HistDest(cpu[c].key)
       IN  /\ cpu' = [cpu EXCEPT ![c].ptr = ptr,
                                 ![c].pc = IF ptr # NullPtr THEN "add"
                                           ELSE "insert"]
           /\ hist' = IF ptr = NullPtr
                      THEN WithDest(hist, cpu[c].key,
                                    [h EXCEPT !.first_sight = @ + 1])
                      ELSE hist
    /\ UNCHANGED <<target_be, clock, FlowSide, EgressSide, walker, consumed, cls>>

\* line 163: __sync_fetch_and_add(bytes, skb->len)
MeAdd(c) ==
    /\ cpu[c].prog = "monitor_egress" /\ cpu[c].pc = "add"
    /\ egress_elems' = ValueAdd(egress_bytes, egress_elems, cpu[c].ptr,
                                cpu[c].skb.len)
    /\ Goto(c, "reserve")
    /\ UNCHANGED <<target_be, clock, FlowSide, cluster_cidrs, cidr_count,
                   egress_bytes, egress_events, walker, consumed, hist, cls>>

\* lines 165-166: bpf_map_update_elem(&egress_bytes, ..., &initial, BPF_ANY)
MeInsert(c) ==
    /\ cpu[c].prog = "monitor_egress" /\ cpu[c].pc = "insert"
    /\ LET d == cpu[c].key
           h == HistDest(d)
       IN  IF MapCanUpdate(egress_bytes, d, EgressMapEntries)
           THEN /\ \E e \in AllocChoices(egress_bytes, egress_elems,
                                         HeldEgressPtrs) :
                      /\ egress_bytes' = MapUpdateMap(egress_bytes, d, e)
                      /\ egress_elems' =
                             MapUpdateElems(egress_bytes, egress_elems, d,
                                            cpu[c].skb.len, e, BlankEgressElem)
                /\ hist' = hist
           ELSE /\ UNCHANGED <<egress_bytes, egress_elems>>
                /\ hist' = WithDest(hist, d, [h EXCEPT !.dropped = @ + 1])
    /\ Goto(c, "reserve")
    /\ UNCHANGED <<target_be, clock, FlowSide, cluster_cidrs, cidr_count,
                   egress_events, walker, consumed, cls>>

\* lines 170-172 as they would be if a failed reservation took the packet's
\* length back out of egress_bytes
MeReserve_RollBack(c) ==
    /\ cpu[c].prog = "monitor_egress" /\ cpu[c].pc = "reserve"
    /\ IF RingHasRoom(egress_events, EgressEventSize, EgressRingSize)
       THEN /\ egress_events' = RingReserve(egress_events, EgressEventSize, c)
            /\ Goto(c, "submit")
            /\ egress_elems' = egress_elems
       ELSE /\ egress_events' = egress_events
            /\ Return(c, TC_ACT_OK)
            /\ egress_elems' =
                   ValueAdd(egress_bytes, egress_elems,
                            MapLookup(egress_bytes, cpu[c].key),
                            0 - cpu[c].skb.len)
    /\ UNCHANGED <<target_be, clock, FlowSide, cluster_cidrs, cidr_count,
                   egress_bytes, walker, consumed, hist, cls>>

\* lines 170-172: bpf_ringbuf_reserve(&egress_events, sizeof(*event), 0)
MeReserve(c) ==
    /\ cpu[c].prog = "monitor_egress" /\ cpu[c].pc = "reserve"
    /\ IF RingHasRoom(egress_events, EgressEventSize, EgressRingSize)
       THEN /\ egress_events' = RingReserve(egress_events, EgressEventSize, c)
            /\ Goto(c, "submit")
       ELSE /\ egress_events' = egress_events
            /\ Return(c, TC_ACT_OK)
    /\ UNCHANGED <<target_be, clock, FlowSide, cluster_cidrs, cidr_count,
                   egress_bytes, egress_elems, walker, consumed, hist, cls>>

\* lines 174-185: fill the event, bpf_ringbuf_submit, return TC_ACT_OK
MeSubmit(c) ==
    /\ cpu[c].prog = "monitor_egress" /\ cpu[c].pc = "submit"
    /\ \E t \in ClockReads :
          /\ clock' = t
          /\ egress_events' = RingSubmit(egress_events, c,
                                         EgressEvent(cpu[c].skb, target_be, t),
                                         hist.nsub.egress_events + 1)
    /\ hist' = [hist EXCEPT !.nsub.egress_events = @ + 1]
    /\ Return(c, TC_ACT_OK)
    /\ UNCHANGED <<target_be, FlowSide, cluster_cidrs, cidr_count,
                   egress_bytes, egress_elems, walker, consumed, cls>>

----------------------------------------------------------------------------
(* The userspace consumer of the two ring buffers *)

ConsumeEvents ==
    /\ RingCanConsume(events)
    /\ consumed' = [consumed EXCEPT
                       !.events[RingConsumed(events).prod] =
                           [last |-> RingConsumed(events).stamp, n |-> @.n + 1]]
    /\ events' = RingAfterConsume(events)
    /\ UNCHANGED <<target_be, clock, flow_map, flow_elems, EgressSide, cpu,
                   walker, hist, cls>>

ConsumeEgress ==
    /\ RingCanConsume(egress_events)
    /\ consumed' = [consumed EXCEPT
                       !.egress_events[RingConsumed(egress_events).prod] =
                           [last |-> RingConsumed(egress_events).stamp,
                            n |-> @.n + 1]]
    /\ egress_events' = RingAfterConsume(egress_events)
    /\ UNCHANGED <<target_be, clock, FlowSide, cluster_cidrs, cidr_count,
                   egress_bytes, egress_elems, cpu, walker, hist, cls>>

----------------------------------------------------------------------------
(* Initial state: the maps as the loader creates them *)

InitCommon ==
    /\ clock = 1
    /\ flow_map = <<>>
    /\ flow_elems = [e \in FlowElemIds |-> BlankFlowElem]
    /\ events = <<>>
    /\ egress_bytes = <<>>
    /\ egress_elems = [e \in EgressElemIds |-> BlankEgressElem]
    /\ egress_events = <<>>
    /\ cpu = [c \in Cores |-> IdleCpu(<<>>)]
    /\ walker = IdleWalker
    /\ consumed = [events |-> [p \in Producers |-> [last |-> 0, n |-> 0]],
                   egress_events |-> [p \in Producers |-> [last |-> 0, n |-> 0]]]
    /\ hist = [n |-> 0, flows |-> <<>>, dests |-> <<>>,
               nsub |-> [events |-> 0, egress_events |-> 0]]
    /\ cls = <<>>

\* the flow tracker on a little-endian target, all cores concurrent
FlowInit ==
    /\ target_be = FALSE
    /\ cluster_cidrs = <<>>
    /\ cidr_count = 0
    /\ InitCommon

\* one outbound packet of each of the first two connections, and the inbound
\* packet of the first
FlowOut == {p \in OutPkts : p.daddr # PeerDns /\ p.len = 100}

FlowIn == {p \in InPkts : p.saddr = PeerExt}

OneTask == {CHOOSE t \in Tasks : t.comm = "curl"}

FlowNext ==
    \/ \E c \in Cores, skb \in FlowOut, t \in OneTask :
           Budget(MaxPackets) /\ TeEnter(c, skb, t)
    \/ \E c \in Cores : TeLookup(c)
    \/ \E c \in Cores : TeTime(c)
    \/ \E c \in Cores : TeInsert(c)
    \/ \E c \in Cores : TeAddBytes(c)
    \/ \E c \in Cores : TeAddPkts(c)
    \/ \E c \in Cores : TeSetLast(c)
    \/ \E c \in Cores, skb \in FlowIn : Budget(MaxPackets) /\ TiEnter(c, skb)
    \/ \E c \in Cores : TiLookup(c)
    \/ \E c \in Cores : TiTime(c)
    \/ \E c \in Cores : TiAddBytes(c)
    \/ \E c \in Cores : TiAddPkts(c)
    \/ \E c \in Cores : TiSetLast(c)

FlowSpec == FlowInit /\ [][FlowNext]_vars

\* the egress monitor on a little-endian target, all cores concurrent,
\* no cluster range configured
EgressInit == FlowInit

\* one outbound packet to each of the two external destinations
EgressOut == {p \in OutPkts : p.daddr # PeerInt /\ p.len # 60}

EgressNext ==
    \/ \E c \in Cores, skb \in EgressOut : Budget(MaxPackets) /\ MeEnter(c, skb)
    \/ \E c \in Cores : MeClassify(c)
    \/ \E c \in Cores : MeLookup(c)
    \/ \E c \in Cores : MeAdd(c)
    \/ \E c \in Cores : MeInsert(c)
    \/ \E c \in Cores : MeReserve(c)
    \/ \E c \in Cores : MeSubmit(c)
    \/ ConsumeEgress

EgressSpec == EgressInit /\ [][EgressNext]_vars

----------------------------------------------------------------------------
(* The whole system on one core of a little-endian target, the range of
   PeerDns configured as a cluster range, one handler at a time: a hook, a run of
   flush_flows on one element or a consumer's read starts only when no hook and no run of flush_flows is under way. *)

\* a cluster range that covers PeerDns, as userspace stores it
DnsCidr(be) == CidrRange(Load32(<<8, 8, 8, 0>>, be), Load32(<<255, 255, 255, 0>>, be))

Init ==
    /\ target_be = FALSE
    /\ cluster_cidrs = (0 :> DnsCidr(target_be))
    /\ cidr_count = 1
    /\ InitCommon

\* every packet sent by one task; the first connection also by another
TeInputs ==
    {in \in (OutPkts \cup BadPkts) \X Tasks :
        in[2].comm = "curl" \/ (in[1].daddr = PeerExt /\ in[1].len = 100
                                 /\ in[1] \in OutPkts)}

FirstCore == {c \in Cores : \A o \in Cores : c <= o}

Quiet == AllIdle /\ walker.pc # "submit"

Next ==
    \/ \E c \in FirstCore, in \in TeInputs :
           Budget(MaxPackets) /\ Quiet /\ TeEnter(c, in[1], in[2])
    \/ \E c \in Cores : TeLookup(c)
    \/ \E c \in Cores : TeTime(c)
    \/ \E c \in Cores : TeInsert(c)
    \/ \E c \in Cores : TeAddBytes(c)
    \/ \E c \in Cores : TeAddPkts(c)
    \/ \E c \in Cores : TeSetLast(c)
    \/ \E c \in FirstCore, skb \in InPkts \cup BadPkts :
           Budget(MaxPackets) /\ Quiet /\ TiEnter(c, skb)
    \/ \E c \in Cores : TiLookup(c)
    \/ \E c \in Cores : TiTime(c)
    \/ \E c \in Cores : TiAddBytes(c)
    \/ \E c \in Cores : TiAddPkts(c)
    \/ \E c \in Cores : TiSetLast(c)
    \/ \E c \in FirstCore, skb \in MonPkts \cup BadPkts :
           Budget(MaxPackets) /\ Quiet /\ MeEnter(c, skb)
    \/ \E c \in Cores : MeClassify(c)
    \/ \E c \in Cores : MeLookup(c)
    \/ \E c \in Cores : MeAdd(c)
    \/ \E c \in Cores : MeInsert(c)
    \/ \E c \in Cores : MeReserve(c)
    \/ \E c \in Cores : MeSubmit(c)
    \/ Budget(MaxPackets) /\ Quiet /\ WalkStart
    \/ \E k \in FlowKeys : Quiet /\ FlReserve(k)
    \/ FlSubmit
    \/ Quiet /\ WalkEnd
    \/ Quiet /\ ConsumeEvents
    \/ Quiet /\ ConsumeEgress

Spec == Init /\ [][Next]_vars

----------------------------------------------------------------------------
(* The walk of flush_flows beside the two hooks of the flow tracker, all
   cores concurrent.  The run starts where one outbound packet of the first
   connection, a walk and one outbound packet of the second connection have
   left the system: two entries, and the first walk's event unread. *)

WalkRuns == 2  \* packets accepted and walks started in a run of WalkSpec

WalkKeys == {EgressKey(p, FALSE) : p \in FlowOut}

\* the element an update takes for the n-th key inserted into the empty map
WalkElemOf(k) ==
    IF k = EgressKey(CHOOSE p \in FlowOut : p.daddr = PeerExt, FALSE) THEN 1 ELSE 2

WalkMetrics == NewMetrics(100, 1, CHOOSE t \in OneTask : TRUE)

WalkFirstKey == CHOOSE k \in WalkKeys : WalkElemOf(k) = 1

WalkInit ==
    /\ target_be = FALSE
    /\ cluster_cidrs = <<>>
    /\ cidr_count = 0
    /\ clock = 1
    /\ flow_map = [k \in WalkKeys |-> WalkElemOf(k)]
    /\ flow_elems =
           [e \in FlowElemIds |->
               IF \E k \in WalkKeys : WalkElemOf(k) = e
               THEN Elem(CHOOSE k \in WalkKeys : WalkElemOf(k) = e, WalkMetrics)
               ELSE BlankFlowElem]
    /\ events =
           <<[len |-> RecordLen(FlowEventSize), busy |-> FALSE, prod |-> Walker,
              stamp |-> 1,
              data |-> <<[stale |-> FALSE, key |-> WalkFirstKey,
                          metrics |-> WalkMetrics, event_type |-> 0,
                          direction |-> 0]>>]>>
    /\ egress_bytes = <<>>
    /\ egress_elems = [e \in EgressElemIds |-> BlankEgressElem]
    /\ egress_events = <<>>
    /\ cpu = [c \in Cores |-> IdleCpu(<<>>)]
    /\ walker = IdleWalker
    /\ consumed = [events |-> [p \in Producers |-> [last |-> 0, n |-> 0]],
                   egress_events |-> [p \in Producers |-> [last |-> 0, n |-> 0]]]
    /\ hist = [n |-> 0,
               flows |-> [k \in WalkKeys |->
                             [ZeroFlowHist EXCEPT !.sent_bytes = 100,
                                                  !.sent_pkts = 1,
                                                  !.first_sight = 1]],
               dests |-> <<>>,
               nsub |-> [events |-> 1, egress_events |-> 0]]
    /\ cls = <<>>

\* one outbound packet of each connection; the third finds the map full
WalkOut == {p \in OutPkts : p.len # 60}

WalkNext ==
    \/ \E c \in Cores, skb \in WalkOut, t \in OneTask :
           Budget(WalkRuns) /\ TeEnter(c, skb, t)
    \/ \E c \in Cores : TeLookup(c)
    \/ \E c \in Cores : TeTime(c)
    \/ \E c \in Cores : TeInsert(c)
    \/ \E c \in Cores : TeAddBytes(c)
    \/ \E c \in Cores : TeAddPkts(c)
    \/ \E c \in Cores : TeSetLast(c)
    \/ \E c \in Cores, skb \in FlowIn : Budget(WalkRuns) /\ TiEnter(c, skb)
    \/ \E c \in Cores : TiLookup(c)
    \/ \E c \in Cores : TiTime(c)
    \/ \E c \in Cores : TiAddBytes(c)
    \/ \E c \in Cores : TiAddPkts(c)
    \/ \E c \in Cores : TiSetLast(c)
    \/ Budget(WalkRuns) /\ WalkStart
    \/ \E k \in FlowKeys : FlReserve(k)
    \/ FlSubmit
    \/ WalkEnd
    \/ ConsumeEvents

WalkSpec == WalkInit /\ [][WalkNext]_vars

----------------------------------------------------------------------------
(* The two hooks of the flow tracker on one core, on either byte order, fed
   with packets over two addresses, two ports and the two protocols, each
   in both directions. *)

KeyRuns == 2  \* packets accepted in a run of KeySpec

KeyAddrs == {HostA, PeerExt}

KeyPorts == {40000, 443}

\* between the two hosts every choice of ports and protocol; within one
\* host the two directions of one TCP connection
KeyPkts ==
    {p \in {Whole(pr, a, b, sp, dp, 100) :
                pr \in {IPPROTO_TCP, IPPROTO_UDP},
                a \in KeyAddrs, b \in KeyAddrs, sp \in KeyPorts, dp \in KeyPorts} :
        \/ p.saddr # p.daddr
        \/ p.saddr = HostA /\ p.protocol = IPPROTO_TCP /\ p.source # p.dest}

KeyInit ==
    /\ target_be \in BOOLEAN
    /\ cluster_cidrs = <<>>
    /\ cidr_count = 0
    /\ InitCommon

KeyNext ==
    \/ \E c \in FirstCore, skb \in KeyPkts, t \in OneTask :
           Budget(KeyRuns) /\ Quiet /\ TeEnter(c, skb, t)
    \/ \E c \in Cores : TeLookup(c)
    \/ \E c \in Cores : TeTime(c)
    \/ \E c \in Cores : TeInsert(c)
    \/ \E c \in Cores : TeAddBytes(c)
    \/ \E c \in Cores : TeAddPkts(c)
    \/ \E c \in Cores : TeSetLast(c)
    \/ \E c \in FirstCore, skb \in KeyPkts :
           Budget(KeyRuns) /\ Quiet /\ TiEnter(c, skb)
    \/ \E c \in Cores : TiLookup(c)
    \/ \E c \in Cores : TiTime(c)
    \/ \E c \in Cores : TiAddBytes(c)
    \/ \E c \in Cores : TiAddPkts(c)
    \/ \E c \in Cores : TiSetLast(c)

KeySpec == KeyInit /\ [][KeyNext]_vars

----------------------------------------------------------------------------
(* The classifier alone: a configuration and a target drawn at the start,
   then destinations classified as line 140 of egress_monitor.c does. *)

\* a cluster range as userspace stores it: the network and the mask in
\* network byte order, like the addresses of the packets
WireCidr(network, mask, be) == CidrRange(Load32(network, be), Load32(mask, be))

DocCidr(be) == WireCidr(<<203, 0, 113, 0>>, <<255, 255, 255, 0>>, be)

FillCidr(be) == WireCidr(<<198, 51, 100, 0>>, <<255, 255, 255, 0>>, be)

\* the first n entries set to a range that matches none of ClassAddrs,
\* entry j to the range of 203.0.113.0/24
FilledBut(n, j, be) ==
    [i \in 0..(n - 1) |-> IF i = j THEN DocCidr(be) ELSE FillCidr(be)]

ClassConfigs(be) ==
    {<<>>}
        \cup {FilledBut(n, j, be) : n \in {1, 17}, j \in {0}}
        \cup {FilledBut(n, j, be) : n \in {17, MAX_CIDR_ENTRIES}, j \in {15, 16, 17}}
        \cup {FilledBut(MAX_CIDR_ENTRIES, MAX_CIDR_ENTRIES - 1, be)}

ClassCounts == {0, 1, 16, 17, MAX_CIDR_ENTRIES, MAX_CIDR_ENTRIES + 44}

ClassAddrs ==
    {<<10, 1, 2, 3>>, <<172, 20, 0, 5>>, <<192, 168, 1, 1>>, <<127, 0, 0, 1>>,
     <<8, 8, 8, 8>>, <<203, 0, 113, 42>>, <<172, 32, 0, 1>>, <<172, 15, 255, 255>>,
     <<11, 0, 0, 1>>, <<192, 169, 0, 1>>, <<3, 2, 1, 10>>, <<1, 0, 0, 127>>}

\* line 140 applied to the destination whose wire bytes are a
Classify(a) ==
    /\ cls' = <<[ip |-> a,
                 internal |-> DestInternal(Load32(a, target_be), target_be,
                                           cidr_count, cluster_cidrs)]>>
    /\ UNCHANGED <<target_be, clock, FlowSide, EgressSide, cpu, walker,
                   consumed, hist>>

ClassInit ==
    /\ target_be \in BOOLEAN
    /\ cidr_count \in ClassCounts
    /\ cluster_cidrs \in ClassConfigs(target_be)
    /\ InitCommon

ClassNext == \E a \in ClassAddrs : Classify(a)

ClassSpec == ClassInit /\ [][ClassNext]_vars

----------------------------------------------------------------------------
(* Properties of the classifier (ClassSpec) *)

\* the four hard-coded private ranges, on the dotted form of the address
InHardCoded(a) ==
    \/ a[1] = 10
    \/ a[1] = 172 /\ a[2] >= 16 /\ a[2] <= 31
    \/ a[1] = 192 /\ a[2] = 168
    \/ a[1] = 127

\* some entry below the configured count (at most 256) matches
MatchesConfigured(ip, count, cidrs) ==
    \E i \in {j \in 0..(MAX_CIDR_ENTRIES - 1) : j < count} :
        CidrMatch(ip, CidrLookup(cidrs, i))

\* C6: the classifier answers Internal exactly for the addresses in one of
\* the four hard-coded ranges or matched, by (address & mask) ==
\* (network & mask), by some cluster_cidrs entry whose index is below the
\* configured count, every entry up to the count (at most 256) examined.
C6_EveryConfiguredEntryCounts ==
    cls # <<>> =>
        cls[1].internal =
            (\/ InHardCoded(cls[1].ip)
             \/ MatchesConfigured(Load32(cls[1].ip, target_be), cidr_count,
                                  cluster_cidrs))

\* C7: with a configured count of zero an address is Internal exactly when
\* it lies in a hard-coded range (10.1.2.3, 172.20.0.5, 192.168.1.1 and
\* 127.0.0.1 Internal, 8.8.8.8 External); with the single entry
\* 203.0.113.0/255.255.255.0 and count 1, 203.0.113.42 is Internal.
C7_EmptyConfigAndOneEntry ==
    cls # <<>> =>
        LET a == cls[1].ip
            internal == cls[1].internal
        IN  /\ cidr_count = 0 =>
                /\ internal = InHardCoded(a)
                /\ a \in {<<10, 1, 2, 3>>, <<172, 20, 0, 5>>, <<192, 168, 1, 1>>,
                          <<127, 0, 0, 1>>} => internal
                /\ a = <<8, 8, 8, 8>> => ~internal
            /\ (cidr_count = 1 /\ cluster_cidrs = FilledBut(1, 0, target_be)
                    /\ a = <<203, 0, 113, 42>>) => internal

\* C7 witness: 203.0.113.42 found Internal through the one configured entry
C7_Witness ==
    /\ cidr_count = 1
    /\ cluster_cidrs = FilledBut(1, 0, target_be)
    /\ cls = <<[ip |-> <<203, 0, 113, 42>>, internal |-> TRUE]>>

\* the indices of the entries of the array that match ip, the entries
\* userspace never wrote (all zero) included
MatchingEntries(ip, cidrs) ==
    {i \in 0..(MAX_CIDR_ENTRIES - 1) : CidrMatch(ip, CidrLookup(cidrs, i))}

\* C18: only the first 16 configured entries take effect: whatever the
\* configured count (above 16 and up to 256 included), an address is Internal
\* exactly when it lies in a hard-coded range or matches an entry whose index
\* is below 16 and below the count; an address that matches only entries at
\* index 16 or higher is External.
C18_OnlyFirstSixteenEntriesCount ==
    cls # <<>> =>
        LET ip == Load32(cls[1].ip, target_be)
        IN  /\ cls[1].internal =
                   (\/ InHardCoded(cls[1].ip)
                    \/ \E i \in 0..15 :
                          /\ i < cidr_count
                          /\ CidrMatch(ip, CidrLookup(cluster_cidrs, i)))
            /\ (/\ ~InHardCoded(cls[1].ip)
                /\ \A i \in MatchingEntries(ip, cluster_cidrs) : i >= 16)
                   => ~cls[1].internal

\* C18 witness: 256 entries configured, the only one that matches
\* 203.0.113.42 at index 16, and the address classified External
C18_Witness ==
    /\ cidr_count = 256
    /\ DOMAIN cluster_cidrs = 0..255
    /\ cls # <<>>
    /\ cls[1].ip = <<203, 0, 113, 42>>
    /\ MatchingEntries(Load32(cls[1].ip, target_be), cluster_cidrs) = {16}
    /\ ~cls[1].internal

----------------------------------------------------------------------------
(* Properties of the flow tracker under concurrent cores (FlowSpec) *)

\* the metrics flow_map holds for key k
FlowEntry(k) == flow_elems[flow_map[k]].val

\* C1: when outbound packets of one flow, unseen before, are processed
\* concurrently on different cores, the flow's entry ends with packets_sent
\* equal to the number of its packets and bytes_sent equal to their total
\* size: no update is lost among the packets that were not dropped for
\* capacity.
C1_NoLostUpdate ==
    AllIdle =>
        \A k \in DOMAIN hist.flows :
            (HistFlow(k).sent_pkts > 0 /\ HistFlow(k).dropped = 0) =>
                /\ k \in DOMAIN flow_map
                /\ FlowEntry(k).packets_sent = HistFlow(k).sent_pkts
                /\ FlowEntry(k).bytes_sent = HistFlow(k).sent_bytes

\* a step of track_ingress on core c
IngressStep(c) ==
    \/ cpu[c].prog = "track_ingress" /\ cpu'[c].pc # cpu[c].pc
    \/ Idle(c) /\ cpu'[c].prog = "track_ingress"

\* the key track_ingress is running for on core c
IngressStepKey(c) == IF Idle(c) THEN cpu'[c].key ELSE cpu[c].key

\* C4: track_ingress never creates a flow_map entry: every key of flow_map
\* has had an outbound packet, a step of track_ingress leaves the set of keys
\* as it was, and for a key with no entry it leaves the whole map unchanged.
C4_IngressNeverInserts ==
    /\ [](\A k \in DOMAIN flow_map : HistFlow(k).sent_pkts > 0)
    /\ [][\A c \in Cores :
            IngressStep(c) =>
                /\ flow_map' = flow_map
                /\ IngressStepKey(c) \notin DOMAIN flow_map =>
                       flow_elems' = flow_elems]_vars

\* C4 witness: track_ingress has run to its end for a key that never had an
\* outbound packet, and the key has no entry
C4_Witness ==
    /\ AllIdle
    /\ \E k \in DOMAIN hist.flows :
          /\ HistFlow(k).recv_miss > 0
          /\ HistFlow(k).sent_pkts = 0
          /\ k \notin DOMAIN flow_map

----------------------------------------------------------------------------
(* Properties of the egress monitor under concurrent cores (EgressSpec) *)

\* C2: under any interleaving of monitor_egress executions on several cores,
\* the egress_bytes value of an External destination equals the sum of the
\* sizes of the packets sent to it that passed the L4 check, none of them
\* dropped for capacity.
C2_AggregateIsTheSum ==
    AllIdle =>
        \A d \in DOMAIN hist.dests :
            (HistDest(d).pkts > 0 /\ HistDest(d).dropped = 0) =>
                /\ d \in DOMAIN egress_bytes
                /\ egress_elems[egress_bytes[d]].val = HistDest(d).bytes

\* the consumer dequeues a record of ring, whose dequeued events are done
RingOrdered(ring, done, done_after) ==
    done_after # done =>
        RingConsumed(ring).stamp > done[RingConsumed(ring).prod].last

\* C10: the consumer dequeues the events of one producer (a core for
\* egress_events, the walk for events) in the order in which that producer
\* submitted them.
C10_PerProducerOrder ==
    [][/\ RingOrdered(egress_events, consumed.egress_events,
                      consumed'.egress_events)
       /\ RingOrdered(events, consumed.events, consumed'.events)]_vars

\* C10 witness: two events of core p have been dequeued, and an event that
\* core q submitted before p's last one is still waiting in the ring
C10_Witness ==
    \E p \in Cores, q \in Cores :
        /\ p # q
        /\ consumed.egress_events[p].n >= 2
        /\ RingCanConsume(egress_events)
        /\ RingConsumed(egress_events).prod = q
        /\ RingConsumed(egress_events).stamp < consumed.egress_events[p].last

----------------------------------------------------------------------------
(* Properties of the whole system, one handler at a time (Spec) *)

\* C3: while flow_map is below capacity, a flow's bytes_sent and
\* packets_sent equal the total size and the number of the outbound packets
\* track_egress has processed for its key, and bytes_received and
\* packets_received those of the inbound packets track_ingress processed
\* while the entry existed; bytes_sent and packets_sent never decrease.
C3_CountersAreSums ==
    /\ [](AllIdle =>
            \A k \in DOMAIN hist.flows :
                (HistFlow(k).sent_pkts > 0 /\ HistFlow(k).dropped = 0) =>
                    /\ k \in DOMAIN flow_map
                    /\ FlowEntry(k).bytes_sent = HistFlow(k).sent_bytes
                    /\ FlowEntry(k).packets_sent = HistFlow(k).sent_pkts
                    /\ FlowEntry(k).bytes_received = HistFlow(k).recv_bytes
                    /\ FlowEntry(k).packets_received = HistFlow(k).recv_pkts)
    /\ [][\A k \in DOMAIN flow_map :
            /\ k \in DOMAIN flow_map'
            /\ flow_elems'[flow_map'[k]].val.bytes_sent >= FlowEntry(k).bytes_sent
            /\ flow_elems'[flow_map'[k]].val.packets_sent >=
                   FlowEntry(k).packets_sent]_vars

\* C3 witness: a flow with two outbound packets and one inbound packet, all
\* counted
C3_Witness ==
    /\ AllIdle
    /\ \E k \in DOMAIN flow_map :
          /\ HistFlow(k).sent_pkts = 2 /\ HistFlow(k).recv_pkts = 1
          /\ FlowEntry(k).packets_sent = 2
          /\ FlowEntry(k).bytes_sent = HistFlow(k).sent_bytes
          /\ FlowEntry(k).packets_received = 1
          /\ FlowEntry(k).bytes_received = HistFlow(k).recv_bytes

\* the destination d is Internal under the configuration in force
Internal(d) == DestInternal(d, target_be, cidr_count, cluster_cidrs)

\* egress_bytes gains or changes a value, or an egress event is reserved or
\* submitted
EgressRecorded ==
    \/ egress_bytes' # egress_bytes
    \/ egress_elems' # egress_elems
    \/ Len(egress_events') > Len(egress_events)
    \/ hist'.nsub.egress_events # hist.nsub.egress_events

\* C8: egress_bytes is updated and an egress event emitted only by
\* monitor_egress and only for an External destination; an outbound packet
\* to an Internal destination still gets its flow_map entry, and
\* track_ingress never changes egress_bytes or the egress events.
C8_OnlyExternalIsRecorded ==
    /\ [](/\ \A d \in DOMAIN egress_bytes : ~Internal(d)
          /\ \A i \in 1..Len(egress_events) :
                ~egress_events[i].busy =>
                    ~Internal(egress_events[i].data[1].dst_ip)
          /\ AllIdle =>
                \A k \in DOMAIN hist.flows :
                    (Internal(k.dst_ip) /\ HistFlow(k).sent_pkts > 0
                        /\ HistFlow(k).dropped = 0) =>
                        /\ k \in DOMAIN flow_map
                        /\ FlowEntry(k).packets_sent = HistFlow(k).sent_pkts)
    /\ [][EgressRecorded =>
            \E c \in Cores :
                /\ cpu[c].prog = "monitor_egress"
                /\ cpu'[c].pc # cpu[c].pc
                /\ ~Internal(cpu[c].key)]_vars
    /\ [][\A c \in Cores : IngressStep(c) => UNCHANGED EgressSide]_vars

\* C8 witness: an outbound packet to an Internal destination has passed
\* both hooks; the flow has its entry, the destination has no aggregate and
\* no event was emitted
C8_Witness ==
    /\ AllIdle
    /\ \E k \in DOMAIN flow_map :
          /\ Internal(k.dst_ip)
          /\ HistDest(k.dst_ip).skipped > 0
          /\ FlowEntry(k).packets_sent > 0
          /\ k.dst_ip \notin DOMAIN egress_bytes
    /\ hist.nsub.egress_events = 0 /\ egress_events = <<>>

\* a record for an event of size bytes does not fit into what is left of ring
NoRoom(ring, size, capacity) == RingUsed(ring) + RecordLen(size) > capacity

\* C9: a handler that finds its ring buffer full discards the event and
\* completes normally, with no block and no retry; a ring never holds more
\* than its capacity.
C9_FullRingDiscards ==
    /\ [](/\ RingUsed(events) <= EventsRingSize
          /\ RingUsed(egress_events) <= EgressRingSize
          /\ \A c \in Cores :
                (cpu[c].prog = "monitor_egress" /\ cpu[c].pc = "reserve") =>
                    ENABLED MeReserve(c))
    /\ [][\A c \in Cores :
            (/\ cpu[c].prog = "monitor_egress" /\ cpu[c].pc = "reserve"
             /\ cpu'[c].pc # "reserve"
             /\ NoRoom(egress_events, EgressEventSize, EgressRingSize)) =>
                /\ egress_events' = egress_events
                /\ cpu'[c].pc = "idle"
                /\ cpu'[c].ret = Returned("monitor_egress", TC_ACT_OK)
                /\ UNCHANGED <<egress_bytes, egress_elems>>]_vars
    /\ [][(/\ walker.pc = "next" /\ walker'.passed \ walker.passed # {}
           /\ NoRoom(events, FlowEventSize, EventsRingSize)) =>
              /\ events' = events
              /\ walker'.pc = "next"
              /\ UNCHANGED <<flow_map, flow_elems>>]_vars

\* C9 witness: monitor_egress has completed for more packets of a
\* destination than it emitted events, all of them counted in egress_bytes,
\* and the ring has no room for another event
C9_Witness ==
    /\ AllIdle
    /\ NoRoom(egress_events, EgressEventSize, EgressRingSize)
    /\ \E d \in DOMAIN egress_bytes :
          /\ HistDest(d).pkts > hist.nsub.egress_events
          /\ egress_elems[egress_bytes[d]].val = HistDest(d).bytes

----------------------------------------------------------------------------
(* Properties of the flow key (KeySpec) *)

\* the packet that travels the other way on the same connection
Mirror(skb) ==
    [skb EXCEPT !.saddr = skb.daddr, !.daddr = skb.saddr,
                !.source = skb.dest, !.dest = skb.source]

\* C5: the key track_egress builds for a packet A:pA -> B:pB is the key
\* track_ingress builds for the packet B:pB -> A:pA of the same protocol,
\* so an inbound packet updates exactly the entry an earlier outbound packet
\* of its connection created, and no other entry.
C5_ReverseKeyIsTheSame ==
    /\ [](\A c \in Cores :
            /\ cpu[c].prog = "track_ingress" =>
                   cpu[c].key = EgressKey(Mirror(cpu[c].skb), target_be)
            /\ cpu[c].prog = "track_egress" =>
                   cpu[c].key = IngressKey(Mirror(cpu[c].skb), target_be))
    /\ [][\A c \in Cores :
            (cpu[c].prog = "track_ingress" /\ cpu'[c].pc # cpu[c].pc) =>
                \A e \in DOMAIN flow_elems :
                    flow_elems'[e] # flow_elems[e] =>
                        LET k == EgressKey(Mirror(cpu[c].skb), target_be)
                        IN  /\ k \in DOMAIN flow_map
                            /\ e = flow_map[k]
                            /\ flow_elems[e].key = k
                            /\ flow_elems[e].val.packets_sent > 0]_vars

\* C5 witness: a connection's entry has counted one outbound packet and
\* the inbound packet that answers it
C5_Witness ==
    /\ AllIdle
    /\ \E k \in DOMAIN flow_map :
          /\ FlowEntry(k).packets_sent = 1
          /\ FlowEntry(k).packets_received = 1
          /\ HistFlow(k).recv_pkts = 1

----------------------------------------------------------------------------
(* Properties of the walk beside the hooks (WalkSpec) *)

\* the walk passes key k in this step
WalkPasses(k) ==
    walker.pc = "next" /\ k \notin walker.passed /\ k \in walker'.passed

\* C11: a walk attempts one emit for every entry it visits and goes on after
\* a failed one: with the ring full for entry k the walk stays under way,
\* ends only when it has passed every key and can visit every key it has
\* not passed, and an entry visited with room in the ring gets its record;
\* no step of the walk changes flow_map, whatever track_egress and
\* track_ingress do meanwhile.
C11_WalkGoesOnAndReadsOnly ==
    /\ [][walker' # walker => UNCHANGED <<flow_map, flow_elems>>]_vars
    /\ [][\A k \in FlowKeys :
            (WalkPasses(k) /\ k \in DOMAIN flow_map) =>
                /\ walker'.pc # "idle"
                /\ walker'.passed = walker.passed \cup {k}
                /\ NoRoom(events, FlowEventSize, EventsRingSize) =>
                       (events' = events /\ walker'.pc = "next")
                /\ RingUsed(events) + RecordLen(FlowEventSize) < EventsRingSize =>
                       /\ Len(events') = Len(events) + 1
                       /\ events'[Len(events')].busy
                       /\ walker'.elem = flow_map[k]]_vars
    /\ [][(walker.pc = "next" /\ walker'.pc = "idle") =>
            walker.passed = FlowKeys]_vars
    /\ [](walker.pc = "next" =>
            \A k \in FlowKeys \ walker.passed : ENABLED FlReserve(k))

\* C11 witness: in one walk the emit for one entry has failed on the full
\* ring, and after the consumer made room the walk has reserved the record
\* of another entry
C11_Witness ==
    /\ walker.pc = "submit"
    /\ hist.nsub.events = 1
    /\ \E k \in walker.passed :
          k \in DOMAIN flow_map /\ flow_map[k] # walker.elem

\* the state WalkSpec starts in, as the whole system reaches it
WalkInitReached ==
    /\ AllIdle /\ walker = IdleWalker
    /\ flow_map = [k \in WalkKeys |-> WalkElemOf(k)]
    /\ \A k \in WalkKeys : FlowEntry(k) = WalkMetrics
    /\ Len(events) = 1 /\ ~events[1].busy
    /\ events[1].data[1].key = WalkFirstKey
    /\ events[1].data[1].metrics = WalkMetrics

----------------------------------------------------------------------------
(* Further properties of the whole system (Spec) *)

\* how far a hook has come
PcRank(pc) ==
    CASE pc = "classify" -> 1
      [] pc = "lookup" -> 2
      [] pc = "time" -> 3
      [] pc \in {"insert", "add", "add_bytes"} -> 4
      [] pc = "add_pkts" -> 5
      [] pc = "set_last" -> 6
      [] pc = "reserve" -> 7
      [] pc = "submit" -> 8
      [] pc = "idle" -> 9

\* the verdict that lets the packet pass: 1 from a cgroup_skb program,
\* TC_ACT_OK = 0 from a tc program
AllowOf(prog) == IF prog = "monitor_egress" THEN 0 ELSE 1

\* some step of the hook running on core c
HookStep(c) ==
    \/ TeLookup(c) \/ TeTime(c) \/ TeInsert(c) \/ TeAddBytes(c)
    \/ TeAddPkts(c) \/ TeSetLast(c)
    \/ TiLookup(c) \/ TiTime(c) \/ TiAddBytes(c) \/ TiAddPkts(c) \/ TiSetLast(c)
    \/ MeClassify(c) \/ MeLookup(c) \/ MeAdd(c) \/ MeInsert(c)
    \/ MeReserve(c) \/ MeSubmit(c)

\* C12: every run of track_egress, track_ingress and monitor_egress comes to
\* its end and returns the verdict allow on every path: a running hook always
\* has a next step, each step takes it further, and what a hook returns is 1
\* (track_egress, track_ingress) or TC_ACT_OK (monitor_egress).
C12_HooksEndWithAllow ==
    /\ [](\A c \in Cores :
            /\ ~Idle(c) => ENABLED HookStep(c)
            /\ cpu[c].ret # <<>> =>
                   cpu[c].ret[1].val = AllowOf(cpu[c].ret[1].prog))
    /\ [][\A c \in Cores :
            ~Idle(c) =>
                /\ \/ cpu'[c].pc = cpu[c].pc
                   \/ PcRank(cpu'[c].pc) > PcRank(cpu[c].pc)
                /\ Idle(c)' =>
                       cpu'[c].ret = Returned(cpu[c].prog, AllowOf(cpu[c].prog))]_vars

\* C12 witness: track_egress has returned 1 for a packet of a new flow that
\* found flow_map full
C12_Witness ==
    /\ AllIdle
    /\ hist.n = MaxPackets
    /\ \E c \in Cores : cpu[c].ret = Returned("track_egress", 1)
    /\ \E k \in DOMAIN hist.flows :
          HistFlow(k).dropped > 0 /\ k \notin DOMAIN flow_map

\* track_egress on core c ends its insert step, monitor_egress likewise
FlowInsertStep(c) ==
    cpu[c].prog = "track_egress" /\ cpu[c].pc = "insert" /\ cpu'[c].pc # "insert"

DestInsertStep(c) ==
    cpu[c].prog = "monitor_egress" /\ cpu[c].pc = "insert" /\ cpu'[c].pc # "insert"

\* C13: a full map is never exceeded and never evicts: with flow_map (or
\* egress_bytes) at its maximum, the packet of a new key (or new External
\* destination) leaves the map as it was, track_egress returns 1 and
\* monitor_egress goes on to its event; the keys present keep accumulating,
\* their entries equal to the sums of their packets.
C13_FullMapDropsSilently ==
    /\ [](/\ Cardinality(DOMAIN flow_map) <= FlowMapEntries
          /\ Cardinality(DOMAIN egress_bytes) <= EgressMapEntries
          /\ AllIdle =>
                /\ \A k \in DOMAIN flow_map :
                      /\ FlowEntry(k).bytes_sent = HistFlow(k).sent_bytes
                      /\ FlowEntry(k).packets_sent = HistFlow(k).sent_pkts
                /\ \A d \in DOMAIN egress_bytes :
                      egress_elems[egress_bytes[d]].val = HistDest(d).bytes)
    /\ [][\A c \in Cores :
            /\ (/\ FlowInsertStep(c)
                /\ cpu[c].key \notin DOMAIN flow_map
                /\ Cardinality(DOMAIN flow_map) >= FlowMapEntries) =>
                   /\ UNCHANGED <<flow_map, flow_elems>>
                   /\ cpu'[c].ret = Returned("track_egress", 1)
            /\ (/\ DestInsertStep(c)
                /\ cpu[c].key \notin DOMAIN egress_bytes
                /\ Cardinality(DOMAIN egress_bytes) >= EgressMapEntries) =>
                   /\ UNCHANGED <<egress_bytes, egress_elems>>
                   /\ cpu'[c].pc = "reserve"]_vars

\* C13 witness: egress_bytes is full, a packet to a new External destination
\* was left out, and the destination present has the sum of its two packets
C13_Witness ==
    /\ AllIdle
    /\ Cardinality(DOMAIN egress_bytes) = EgressMapEntries
    /\ \E d \in DOMAIN hist.dests :
          d \notin DOMAIN egress_bytes /\ HistDest(d).dropped > 0
    /\ \E d \in DOMAIN egress_bytes :
          /\ HistDest(d).pkts = 2
          /\ egress_elems[egress_bytes[d]].val = HistDest(d).bytes

\* monitor_egress on core c gives up its event: from the reservation it
\* goes straight to its end
EmitFails(c) ==
    cpu[c].prog = "monitor_egress" /\ cpu[c].pc = "reserve" /\ cpu'[c].pc = "idle"

\* the walk passes an entry and reserves nothing
SnapshotFails ==
    /\ walker.pc = "next" /\ walker'.pc = "next"
    /\ walker'.passed # walker.passed
    /\ events' = events

\* C14: a dropped event leaves the aggregates alone: when monitor_egress
\* reaches its reservation the packet's length is already in egress_bytes
\* for the destination, and a failed reservation, in monitor_egress or in
\* flush_flows, changes neither egress_bytes nor any entry of flow_map.
C14_DroppedEventKeepsCounters ==
    /\ [](\A c \in Cores :
            (/\ cpu[c].prog = "monitor_egress"
             /\ cpu[c].pc = "reserve"
             /\ HistDest(cpu[c].key).dropped = 0) =>
                /\ cpu[c].key \in DOMAIN egress_bytes
                /\ egress_elems[egress_bytes[cpu[c].key]].val =
                       HistDest(cpu[c].key).bytes)
    /\ [][\A c \in Cores :
            EmitFails(c) =>
                /\ egress_events' = egress_events
                /\ UNCHANGED <<egress_bytes, egress_elems, flow_map, flow_elems>>]_vars
    /\ [][SnapshotFails =>
            UNCHANGED <<egress_bytes, egress_elems, flow_map, flow_elems>>]_vars

\* C14 witness: monitor_egress has just returned without its event, the ring
\* being full, and the destination's total includes that packet
C14_Witness ==
    /\ AllIdle
    /\ \E c \in Cores : cpu[c].ret = Returned("monitor_egress", TC_ACT_OK)
    /\ Len(egress_events) = hist.nsub.egress_events
    /\ \E d \in DOMAIN egress_bytes :
          /\ HistDest(d).pkts = hist.nsub.egress_events + 1
          /\ HistDest(d).dropped = 0
          /\ egress_elems[egress_bytes[d]].val = HistDest(d).bytes

\* the packet carries what the hooks need: a whole Ethernet header with the
\* IPv4 ethertype, a whole IP header, TCP or UDP, and the whole header of it
InScope(skb) ==
    /\ skb.caplen >= 14
    /\ skb.h_proto = <<8, 0>>
    /\ skb.caplen >= 14 + 20
    /\ skb.protocol \in {6, 17}
    /\ skb.caplen >= 14 + skb.ihl * 4 + (IF skb.protocol = 6 THEN 20 ELSE 8)

\* a hook takes a packet on core c and returns at once
Refused(c) == Idle(c) /\ Idle(c)' /\ cpu'[c].ret # cpu[c].ret

\* C15: a packet with a truncated Ethernet, IP or TCP/UDP header, another
\* ethertype than IPv4 or another protocol than TCP and UDP is not tracked:
\* no hook gets to its map with such a packet, and the run that meets it
\* returns allow with flow_map, egress_bytes and both rings as they were.
C15_OutOfScopeIsNotTracked ==
    /\ [](\A c \in Cores :
            /\ cpu[c].prog \in {"track_egress", "track_ingress"} =>
                   InScope(cpu[c].skb)
            /\ (cpu[c].prog = "monitor_egress" /\ cpu[c].pc # "classify") =>
                   InScope(cpu[c].skb))
    /\ [][\A c \in Cores :
            /\ Refused(c) =>
                   /\ UNCHANGED <<FlowSide, EgressSide>>
                   /\ cpu'[c].ret[1].val = AllowOf(cpu'[c].ret[1].prog)
            /\ (/\ cpu[c].prog = "monitor_egress"
                /\ ~InScope(cpu[c].skb)
                /\ cpu'[c].pc # cpu[c].pc) =>
                   /\ UNCHANGED <<FlowSide, EgressSide>>
                   /\ cpu'[c].ret = Returned("monitor_egress", TC_ACT_OK)]_vars

\* C15 witness: monitor_egress has returned for a packet it did not take,
\* bound for an External destination, and nothing is recorded anywhere
C15_Witness ==
    /\ AllIdle
    /\ hist.n = 0
    /\ \E c \in Cores : cpu[c].ret = Returned("monitor_egress", TC_ACT_OK)
    /\ flow_map = <<>> /\ egress_bytes = <<>>
    /\ events = <<>> /\ egress_events = <<>>
    /\ \A p \in BadPkts : ~InScope(p) /\ ~Internal(Load32(p.daddr, target_be))

----------------------------------------------------------------------------
(* Further properties of the flow tracker under concurrent cores (FlowSpec) *)

\* the metrics flow_map holds for key k after the step
FlowEntryAfter(k) == flow_elems'[flow_map'[k]].val

\* C16: with track_egress and track_ingress interleaved on several cores,
\* the four counters of an entry never decrease from one state to the next
\* for as long as the entry exists.
C16_CountersNeverDecrease ==
    [][\A k \in DOMAIN flow_map :
          k \in DOMAIN flow_map' =>
              /\ FlowEntryAfter(k).bytes_sent >= FlowEntry(k).bytes_sent
              /\ FlowEntryAfter(k).packets_sent >= FlowEntry(k).packets_sent
              /\ FlowEntryAfter(k).bytes_received >= FlowEntry(k).bytes_received
              /\ FlowEntryAfter(k).packets_received >=
                     FlowEntry(k).packets_received]_vars

\* C20: with track_egress and track_ingress interleaved on several cores,
\* last_seen_ns of an entry never moves backwards and is never smaller than
\* the entry's start_time_ns.
C20_LastSeenMovesForward ==
    /\ [](\A k \in DOMAIN flow_map :
            FlowEntry(k).last_seen_ns >= FlowEntry(k).start_time_ns)
    /\ [][\A k \in DOMAIN flow_map :
            k \in DOMAIN flow_map' =>
                FlowEntryAfter(k).last_seen_ns >= FlowEntry(k).last_seen_ns]_vars

----------------------------------------------------------------------------
(* Frame properties of the flow tracker, one handler at a time (Spec) *)

\* a step of hook prog on core c that leaves position pc
StepAt(c, prog, pc) ==
    cpu[c].prog = prog /\ cpu[c].pc = pc /\ cpu'[c].pc # pc

\* the step changes, of all elements of flow_map, at most the fields named
\* of the entry of key k
OnlyFields(k, fields) ==
    /\ flow_map' = flow_map
    /\ k \in DOMAIN flow_map
    /\ \A e \in DOMAIN flow_elems :
          e # flow_map[k] => flow_elems'[e] = flow_elems[e]
    /\ flow_elems'[flow_map[k]].key = flow_elems[flow_map[k]].key
    /\ \A f \in DOMAIN FlowEntry(k) \ fields :
          FlowEntryAfter(k)[f] = FlowEntry(k)[f]

C19_KeySetsOnlyGrow ==
    [][/\ DOMAIN flow_map \subseteq DOMAIN flow_map'
       /\ DOMAIN egress_bytes \subseteq DOMAIN egress_bytes']_vars

\* C19 witness: after track_egress inserted a flow, monitor_egress inserted
\* a destination and a walk of flush_flows emitted the flow's record and
\* ended, the flow and the destination are still in their maps
C19_Witness ==
    /\ AllIdle /\ walker.pc = "idle"
    /\ hist.nsub.events >= 1
    /\ \E k \in DOMAIN flow_map : HistFlow(k).first_sight = 1
    /\ \E d \in DOMAIN egress_bytes : HistDest(d).first_sight = 1

====
